---- MODULE Spec2Model ----
(***************************************************************************)
(* Model of the anasm two-pass assembler (internal/compiler/compiler.go):  *)
(* preproc() filters the lexer's tokens and binds labels, compile() emits  *)
(* instruction records and `let` data, CompileToBinary() writes the        *)
(* container file.                                                         *)
(*                                                                         *)
(* A Word (uint64) is kept as four 16-bit limbs <<w3, w2, w1, w0>>, most   *)
(* significant first, so that 64-bit values stay inside TLC's integers.    *)
(* The counters pos, programSize, memorySize and entryPoint stay small and *)
(* are kept as naturals; ToWord gives their 64-bit encoding.               *)
(***************************************************************************)
EXTENDS Integers, Sequences, FiniteSets, TLC

\* ------------------------------------------------------------------ bounds

\* The lexer's output is a concatenation of at most MaxItems source items.
MaxItems == 3

\* At most MaxIOFaults calls of os.Create / f.Write fail in one run.
MaxIOFaults == 1

\* ------------------------------------------------------------------ words

Limb == 65536

ZeroWord == <<0, 0, 0, 0>>

\* Word(n) for a small natural n (n < 2^31).
ToWord(n) == <<0, 0, n \div Limb, n % Limb>>

\* One step of strconv.ParseInt: w * base + d on 64 bits, with the carry out.
MulAdd(w, base, d) ==
    LET t0 == w[4] * base + d
        t1 == w[3] * base + (t0 \div Limb)
        t2 == w[2] * base + (t1 \div Limb)
        t3 == w[1] * base + (t2 \div Limb)
    IN  [val   |-> <<t3 % Limb, t2 % Limb, t1 % Limb, t0 % Limb>>,
         carry |-> t3 \div Limb]

RECURSIVE ParseDigits(_, _, _, _)
ParseDigits(digits, base, i, acc) ==
    IF ~acc.ok \/ i > Len(digits) THEN acc
    ELSE IF digits[i] >= base THEN [ok |-> FALSE, val |-> ZeroWord]
    ELSE LET r == MulAdd(acc.val, base, digits[i])
         IN  ParseDigits(digits, base, i + 1,
                         [ok |-> r.carry = 0, val |-> r.val])

\* strconv.ParseInt(text, base, 64): fails on an empty text, on a digit
\* outside the base and on a value outside the int64 range.
ParseInt(digits, base) ==
    LET r == ParseDigits(digits, base, 1, [ok |-> TRUE, val |-> ZeroWord])
    IN  IF Len(digits) = 0 \/ ~r.ok \/ r.val[1] >= 32768
        THEN [ok |-> FALSE, val |-> ZeroWord]
        ELSE r

\* Big-endian bytes of a 16-bit limb.
LimbBytes(l) == <<l \div 256, l % 256>>

\* binary.Write(buf, binary.BigEndian, word)
WordBytes(w) ==
    LimbBytes(w[1]) \o LimbBytes(w[2]) \o LimbBytes(w[3]) \o LimbBytes(w[4])

\* ----------------------------------------------------------------- tokens

Tok(type, data, chars) == [Type |-> type, Data |-> data, Chars |-> chars]

TLabel(n)  == Tok("Label", n, <<>>)
TWord(n)   == Tok("Word", n, <<>>)
TAddr(n)   == Tok("Addr", n, <<>>)
TDec(ds)   == Tok("Dec", "", ds)
THex(ds)   == Tok("Hex", "", ds)
TOct(ds)   == Tok("Oct", "", ds)
TBin(ds)   == Tok("Bin", "", ds)
TChar(cs)  == Tok("Char", "", cs)
TFloat(cs) == Tok("Float", "", cs)
TString(cs) == Tok("String", "", cs)
TLet       == Tok("Let", "", <<>>)
TComma     == Tok("Comma", "", <<>>)
TError     == Tok("Error", "bad token", <<>>)
TSize(t)   == Tok(t, "", <<>>)

\* token.Token.IsArg
IsArg(t) == t.Type \in {"Dec", "Hex", "Oct", "Bin", "Char", "Float", "Addr"}

\* The instruction table: name -> (opcode, whether it takes an argument).
Insts ==
    [n \in {"halt", "jmp"} |->
        IF n = "halt" THEN [Op |-> 255, HasArg |-> FALSE]
                      ELSE [Op |-> 34,  HasArg |-> TRUE]]

\* The text "1.5" as code points, and its IEEE-754 binary64 bit pattern.
FloatText == <<49, 46, 53>>
Float64bits(cs) == IF cs = FloatText THEN <<16376, 0, 0, 0>> ELSE ZeroWord

\* ------------------------------------------------------------ source items

Items ==
    { <<TLabel("entry")>>,
      <<TLabel("L")>>,
      <<TLabel("v")>>,
      <<TWord("halt")>>,
      <<TWord("jmp")>>,
      <<TWord("jmp"), TAddr("entry")>>,
      <<TWord("jmp"), TAddr("L")>>,
      <<TWord("jmp"), TAddr("v")>>,
      <<TDec(<<1>>)>>,
      <<TComma>>,
      <<TError>>,
      <<TLet>>,
      <<TLet, TWord("v"), TSize("Size8"),
        TDec(<<1>>), TComma, TDec(<<2>>), TComma, TDec(<<3>>)>>,
      <<TLet, TWord("w"), TSize("Size16"),
        THex(<<1, 2, 3, 4, 5>>), TComma, TString(<<97, 98>>), TComma, TBin(<<1, 0, 1>>)>>,
      <<TLet, TWord("w"), TSize("Size32"),
        TAddr("w"), TComma, THex(<<1, 0, 0, 0, 0, 2, 0, 3, 0, 4>>)>>,
      <<TLet, TWord("halt"), TSize("Size64"),
        THex(<<1, 2, 3, 4, 5, 6, 7, 8, 9, 10, 11, 12, 13, 14, 15>>), TComma,
        TFloat(FloatText), TComma, TOct(<<3, 7, 7>>), TComma, TChar(<<65>>)>> }

RECURSIVE Sources(_)
Sources(n) ==
    IF n = 0 THEN {<<>>}
    ELSE LET shorter == Sources(n - 1)
         IN  shorter \cup {s \o it : s \in shorter, it \in Items}

\* The lexer stamps every token with its position (token.Where).
Stamp(s) == [i \in 1..Len(s) |->
                [Type |-> s[i].Type, Data |-> s[i].Data,
                 Chars |-> s[i].Chars, Where |-> i]]

EOFTok(where) == [Type |-> "EOF", Data |-> "", Chars |-> <<>>, Where |-> where]

NoTok == [Type |-> "None", Data |-> "", Chars |-> <<>>, Where |-> 0]

\* ------------------------------------------------------------------ state

VARIABLES
    src,          \* the tokens lexer.NextToken will return, before the EOF
    executable,   \* CompileToBinary's parameter
    toks, pos, tok,
    programSize, memorySize, entryPoint,
    labels, vars,
    memory, program,
    pc,           \* where CompileToBinary stands
    err,          \* the error it returns: kind and position
    file,         \* the output file: whether it exists, its mode and bytes
    faults        \* names of the I/O calls that failed

vars_ == <<src, executable, toks, pos, tok, programSize, memorySize,
           entryPoint, labels, vars, memory, program, pc, err, file, faults>>

NoErr == [kind |-> "none", where |-> 0]
Err(kind, where) == [kind |-> kind, where |-> where]

\* The output file before os.Create.
NoFile == [created |-> FALSE, mode |-> 0, data |-> <<>>]

EmptyMap == [n \in {} |-> 0]
Bind(m, n, v) == [x \in DOMAIN m \cup {n} |-> IF x = n THEN v ELSE m[x]]

Init ==
    /\ src \in {Stamp(s) : s \in Sources(MaxItems)}
    /\ executable \in BOOLEAN
    /\ toks = <<>>
    /\ pos = 0
    /\ tok = NoTok
    /\ programSize = 0
    /\ memorySize = 0
    /\ entryPoint = 0
    /\ labels = EmptyMap
    /\ vars = EmptyMap
    /\ memory = <<>>
    /\ program = <<>>
    /\ pc = "preproc"
    /\ err = NoErr
    /\ file = NoFile
    /\ faults = {}

\* ---------------------------------------------------------------- preproc

\* One run of preproc's loop from token i on; st carries toks, pos, labels,
\* tok and err.
RECURSIVE PreprocLoop(_, _)
PreprocLoop(i, st) ==
    IF i > Len(src)
    THEN [st EXCEPT !.tok = EOFTok(Len(src) + 1)]
    ELSE LET t == src[i]
             s == [st EXCEPT !.tok = t]
         IN  CASE t.Type = "Error" ->
                    [s EXCEPT !.err = Err("Lex", t.Where)]
               [] t.Type = "Word" ->
                    PreprocLoop(i + 1,
                        [s EXCEPT !.pos = IF t.Data \in DOMAIN Insts
                                          THEN s.pos + 1 ELSE s.pos,
                                  !.toks = Append(s.toks, t)])
               [] t.Type = "Label" ->
                    IF t.Data \in DOMAIN s.labels
                    THEN [s EXCEPT !.err = Err("LabelRedefinition", t.Where)]
                    ELSE PreprocLoop(i + 1,
                            [s EXCEPT !.labels = Bind(s.labels, t.Data, s.pos)])
               [] OTHER ->
                    PreprocLoop(i + 1, [s EXCEPT !.toks = Append(s.toks, t)])

\* EntryOf with the ok flag ignored.
EntryOf_NoCheck(ls) ==
    IF "entry" \in DOMAIN ls THEN [ok |-> TRUE, addr |-> ls["entry"]]
    ELSE [ok |-> TRUE, addr |-> 0]

\* entry, ok := c.labels["entry"]: a missing key reads as (0, false).
EntryOf(ls) ==
    IF "entry" \in DOMAIN ls THEN [ok |-> TRUE, addr |-> ls["entry"]]
    ELSE [ok |-> FALSE, addr |-> 0]

PreprocResult ==
    PreprocLoop(1, [toks |-> toks, pos |-> pos, labels |-> labels,
                    tok |-> tok, err |-> NoErr])

Preproc ==
    /\ pc = "preproc"
    /\ LET r == PreprocResult
           entry == EntryOf(r.labels)
       IN  /\ tok' = r.tok
           /\ pos' = r.pos
           /\ labels' = r.labels
           /\ IF r.err # NoErr
              THEN /\ err' = r.err
                   /\ toks' = r.toks
                   /\ pc' = "returned"
                   /\ UNCHANGED <<programSize, entryPoint>>
              ELSE IF ~entry.ok
              THEN /\ err' = Err("NoEntry", 0)
                   /\ toks' = r.toks
                   /\ pc' = "returned"
                   /\ UNCHANGED <<programSize, entryPoint>>
              ELSE /\ err' = NoErr
                   /\ toks' = Append(r.toks, r.tok)
                   /\ programSize' = r.pos
                   /\ entryPoint' = entry.addr
                   /\ pc' = "compile"
    /\ UNCHANGED <<src, executable, memorySize, vars, memory, program,
                   file, faults>>

\* ---------------------------------------------------------------- compile

\* The part of the Compiler the compile pass changes.
CompileState ==
    [pos |-> pos, tok |-> tok, vars |-> vars, memorySize |-> memorySize,
     memory |-> memory, program |-> program, err |-> NoErr]

next(c) ==
    IF c.tok.Type = "EOF" THEN c
    ELSE [c EXCEPT !.pos = c.pos + 1, !.tok = toks[c.pos + 2]]

Fail(c, kind, where) == [c EXCEPT !.err = Err(kind, where)]

\* Lookup with the second ok flag ignored.
Lookup_NoCheck(name, c) ==
    IF name \in DOMAIN labels THEN [ok |-> TRUE, data |-> labels[name]]
    ELSE IF name \in DOMAIN c.vars THEN [ok |-> TRUE, data |-> c.vars[name]]
    ELSE [ok |-> TRUE, data |-> 0]

\* The Addr case of argToWord: the label table first, then the variables.
Lookup(name, c) ==
    IF name \in DOMAIN labels THEN [ok |-> TRUE, data |-> labels[name]]
    ELSE IF name \in DOMAIN c.vars THEN [ok |-> TRUE, data |-> c.vars[name]]
    ELSE [ok |-> FALSE, data |-> 0]

\* argToWord; c.Error reports the position of the current token c.tok.
argToWord(t, c) ==
    LET lit(base) ==
            LET r == ParseInt(t.Chars, base)
            IN  IF r.ok THEN [val |-> r.val, err |-> NoErr]
                ELSE [val |-> ZeroWord, err |-> Err("Panic", t.Where)]
    IN  CASE t.Type = "Dec" -> lit(10)
          [] t.Type = "Hex" -> lit(16)
          [] t.Type = "Oct" -> lit(8)
          [] t.Type = "Bin" -> lit(2)
          [] t.Type = "Char" ->
                IF Len(t.Chars) # 1
                THEN [val |-> ZeroWord, err |-> Err("Panic", t.Where)]
                ELSE [val |-> ToWord(t.Chars[1]), err |-> NoErr]
          [] t.Type = "Float" ->
                [val |-> Float64bits(t.Chars), err |-> NoErr]
          [] t.Type = "Addr" ->
                LET found == Lookup(t.Data, c)
                IN  IF found.ok
                    THEN [val |-> ToWord(found.data), err |-> NoErr]
                    ELSE [val |-> ZeroWord,
                          err |-> Err("AddressNotDeclared", c.tok.Where)]
          [] OTHER ->
                [val |-> ZeroWord, err |-> Err("ExpectedRegister", c.tok.Where)]

writeInst(c, op, data) ==
    [c EXCEPT !.program = c.program \o <<op>> \o WordBytes(data)]

\* ArityError with the two HasArg tests exchanged.
ArityError_Swapped(inst, isArg) ==
    IF ~isArg
    THEN IF ~inst.HasArg THEN "ExpectsArgument" ELSE "none"
    ELSE IF inst.HasArg THEN "ExpectsNoArguments" ELSE "none"

\* The arity test of compileInst on the token after the instruction.
ArityError(inst, isArg) ==
    IF ~isArg
    THEN IF inst.HasArg THEN "ExpectsArgument" ELSE "none"
    ELSE IF ~inst.HasArg THEN "ExpectsNoArguments" ELSE "none"

compileInst(c) ==
    LET t == c.tok
    IN  IF t.Data \notin DOMAIN Insts
        THEN Fail(c, "NotAnInstruction", c.tok.Where)
        ELSE LET inst == Insts[t.Data]
                 c1 == next(c)
                 arity == ArityError(inst, IsArg(c1.tok))
             IN  IF arity # "none"
                 THEN Fail(c1, arity, t.Where)
                 ELSE IF ~IsArg(c1.tok)
                 THEN writeInst(c1, inst.Op, ZeroWord)
                 ELSE LET a == argToWord(c1.tok, c1)
                      IN  IF a.err # NoErr
                          THEN [c1 EXCEPT !.err = a.err]
                          ELSE writeInst(next(c1), inst.Op, a.val)

\* SizedBytes with the 4-byte case narrowed to uint16.
SizedBytes_Narrow(data, size) ==
    CASE size = 1 -> <<data[4] % 256>>
      [] size = 2 -> LimbBytes(data[4])
      [] size = 4 -> LimbBytes(0) \o LimbBytes(data[4])
      [] size = 8 -> WordBytes(data)

\* writeMemory for the four legal sizes: the low `size` bytes, big-endian.
SizedBytes(data, size) ==
    CASE size = 1 -> <<data[4] % 256>>
      [] size = 2 -> LimbBytes(data[4])
      [] size = 4 -> LimbBytes(data[3]) \o LimbBytes(data[4])
      [] size = 8 -> WordBytes(data)

writeMemory(c, data, size) ==
    IF size \in {1, 2, 4, 8}
    THEN [c EXCEPT !.memory = c.memory \o SizedBytes(data, size)]
    ELSE Fail(c, "WrongElementSize", 0)

\* The inner loop of compileLet over the characters of a string item.
RECURSIVE LetString(_, _, _, _)
LetString(c, chars, i, size) ==
    IF i > Len(chars) THEN c
    ELSE LET w == writeMemory(c, ToWord(chars[i]), size)
         IN  IF w.err # NoErr THEN w
             ELSE LetString([w EXCEPT !.memorySize = w.memorySize + size],
                            chars, i + 1, size)

\* The data-list loop of compileLet, entered with c.tok on a data item.
RECURSIVE LetData(_, _)
LetData(c, size) ==
    LET item ==
            IF c.tok.Type = "String"
            THEN LetString(c, c.tok.Chars, 1, size)
            ELSE IF ~IsArg(c.tok)
            THEN Fail(c, "ExpectedData", c.tok.Where)
            ELSE LET a == argToWord(c.tok, c)
                 IN  IF a.err # NoErr
                     THEN [c EXCEPT !.err = a.err]
                     ELSE LET w == writeMemory(c, a.val, size)
                          IN  IF w.err # NoErr THEN w
                              ELSE [w EXCEPT !.memorySize = w.memorySize + size]
    IN  IF item.err # NoErr THEN item
        ELSE LET c1 == next(item)
             IN  IF c1.tok.Type # "Comma" THEN c1
                 ELSE LetData(next(c1), size)

SizeOf(type) ==
    CASE type = "Size8"  -> 1
      [] type = "Size16" -> 2
      [] type = "Size32" -> 4
      [] type = "Size64" -> 8
      [] OTHER -> 0

\* VarAddr without the + 1.
VarAddr_Offset(c) == c.memorySize

\* The address compileLet binds to a new variable.
VarAddr(c) == c.memorySize + 1

\* NameTaken without the test against the label table.
NameTaken_VarsOnly(c, name) ==
    IF name \in DOMAIN c.vars THEN "RedefinedVariable" ELSE "none"

\* compileLet's test of the identifier against both tables.
NameTaken(c, name) ==
    IF name \in DOMAIN c.vars THEN "RedefinedVariable"
    ELSE IF name \in DOMAIN labels THEN "LabelExists"
    ELSE "none"

compileLet(c) ==
    LET c1 == next(c)
        name == c1.tok.Data
    IN  IF c1.tok.Type # "Word"
        THEN Fail(c1, "ExpectedIdentifier", c1.tok.Where)
        ELSE IF NameTaken(c1, name) # "none"
        THEN Fail(c1, NameTaken(c1, name), c1.tok.Where)
        ELSE LET c2 == next([c1 EXCEPT !.vars = Bind(c1.vars, name, VarAddr(c1))])
                 size == SizeOf(c2.tok.Type)
             IN  IF size = 0
                 THEN Fail(c2, "ExpectedSize", c2.tok.Where)
                 ELSE LetData(next(c2), size)

\* OnCompileError with the error dropped.
OnCompileError_GoOn == "create"

\* CompileToBinary returns compile's error.
OnCompileError == "returned"

\* Store what one iteration of compile's loop left behind.
Commit(c) ==
    /\ pos' = c.pos
    /\ tok' = c.tok
    /\ vars' = c.vars
    /\ memorySize' = c.memorySize
    /\ memory' = c.memory
    /\ program' = c.program
    /\ err' = c.err
    /\ pc' = IF c.err = NoErr THEN "loop"
             ELSE IF c.err.kind = "Panic" THEN "panicked" ELSE OnCompileError
    /\ UNCHANGED <<src, executable, toks, programSize, entryPoint, labels,
                   file, faults>>

\* compile() entry: rewind the cursor to the first filtered token.
CompileStart ==
    /\ pc = "compile"
    /\ pos' = 0
    /\ tok' = toks[1]
    /\ pc' = "loop"
    /\ UNCHANGED <<src, executable, toks, programSize, memorySize, entryPoint,
                   labels, vars, memory, program, err, file, faults>>

CompileInst ==
    /\ pc = "loop"
    /\ tok.Type # "EOF"
    /\ toks[pos + 1].Type = "Word"
    /\ Commit(compileInst(CompileState))

CompileLet ==
    /\ pc = "loop"
    /\ tok.Type # "EOF"
    /\ toks[pos + 1].Type = "Let"
    /\ Commit(compileLet(CompileState))

CompileUnexpected ==
    /\ pc = "loop"
    /\ tok.Type # "EOF"
    /\ toks[pos + 1].Type \notin {"Word", "Let"}
    /\ Commit(Fail(CompileState, "Unexpected", tok.Where))

CompileDone ==
    /\ pc = "loop"
    /\ tok.Type = "EOF"
    /\ pc' = "create"
    /\ UNCHANGED <<src, executable, toks, pos, tok, programSize, memorySize,
                   entryPoint, labels, vars, memory, program, err, file, faults>>

\* ----------------------------------------------------------- container file

Shebang == <<35, 33, 47, 117, 115, 114, 47, 98, 105, 110, 47, 97, 118, 109, 10>>
Magic   == <<65, 86, 77>>

VersionMajor == 1
VersionMinor == 7
VersionPatch == 7

CanFault == Cardinality(faults) < MaxIOFaults

compilerState == <<src, executable, toks, pos, tok, programSize, memorySize,
                   entryPoint, labels, vars, memory, program>>

\* os.Create: the error is returned.
CreateFile ==
    /\ pc = "create"
    /\ \/ /\ file' = [created |-> TRUE, mode |-> 438, data |-> <<>>]
          /\ pc' = IF executable THEN "shebang" ELSE "magic"
          /\ UNCHANGED <<err, faults>>
       \/ /\ CanFault
          /\ faults' = faults \cup {"create"}
          /\ err' = Err("IO", 0)
          /\ pc' = "returned"
          /\ UNCHANGED file
    /\ UNCHANGED compilerState

\* f.Write whose error the caller drops.
WriteUnchecked(here, bytes, then) ==
    /\ pc = here
    /\ pc' = then
    /\ \/ /\ file' = [file EXCEPT !.data = file.data \o bytes]
          /\ UNCHANGED faults
       \/ /\ CanFault
          /\ faults' = faults \cup {here}
          /\ UNCHANGED file
    /\ UNCHANGED err
    /\ UNCHANGED compilerState

\* f.Write whose error the caller returns.
WriteChecked(here, bytes, then) ==
    /\ pc = here
    /\ \/ /\ file' = [file EXCEPT !.data = file.data \o bytes]
          /\ pc' = then
          /\ UNCHANGED <<err, faults>>
       \/ /\ CanFault
          /\ faults' = faults \cup {here}
          /\ err' = Err("IO", 0)
          /\ pc' = "returned"
          /\ UNCHANGED file
    /\ UNCHANGED compilerState

WriteShebang == WriteUnchecked("shebang", Shebang, "chmod")

\* os.Chmod(path, 0777): the error is dropped.
Chmod ==
    /\ pc = "chmod"
    /\ pc' = "magic"
    /\ \/ /\ file' = [file EXCEPT !.mode = 511]
          /\ UNCHANGED faults
       \/ /\ CanFault
          /\ faults' = faults \cup {"chmod"}
          /\ UNCHANGED file
    /\ UNCHANGED err
    /\ UNCHANGED compilerState

WriteMagic == WriteUnchecked("magic", Magic, "version")

WriteVersion ==
    WriteUnchecked("version", <<VersionMajor, VersionMinor, VersionPatch>>,
                   "programSize")

\* fileWriteWord returns f.Write's error; CompileToBinary drops it.
fileWriteWord(here, word, then) == WriteUnchecked(here, WordBytes(word), then)

WriteProgramSize == fileWriteWord("programSize", ToWord(programSize), "memorySize")
WriteMemorySize  == fileWriteWord("memorySize", ToWord(memorySize), "entryPoint")
WriteEntryPoint  == fileWriteWord("entryPoint", ToWord(entryPoint), "memory")

WriteMemory  == WriteChecked("memory", memory, "program")
WriteProgram == WriteChecked("program", program, "returned")

Next ==
    \/ Preproc
    \/ CompileStart
    \/ CompileInst
    \/ CompileLet
    \/ CompileUnexpected
    \/ CompileDone
    \/ CreateFile
    \/ WriteShebang
    \/ Chmod
    \/ WriteMagic
    \/ WriteVersion
    \/ WriteProgramSize
    \/ WriteMemorySize
    \/ WriteEntryPoint
    \/ WriteMemory
    \/ WriteProgram

Spec == Init /\ [][Next]_vars_

\* ------------------------------------------------------------- properties

WriterPcs == {"create", "shebang", "chmod", "magic", "version", "programSize",
              "memorySize", "entryPoint", "memory", "program"}

\* Both passes have returned without error.
Passed == pc \in WriterPcs \/ (pc = "returned" /\ err.kind \in {"none", "IO"})

\* The compile pass has started: pos is its token cursor.
InCompilePass ==
    \/ pc = "loop"
    \/ Passed
    \/ pc = "returned" /\ err.kind \notin {"Lex", "LabelRedefinition", "NoEntry"}

IsLabelDecl(i, n) == src[i].Type = "Label" /\ src[i].Data = n
LabelInSource(n) == \E i \in 1..Len(src) : IsLabelDecl(i, n)

\* A label declaration that repeats an earlier one.
DupAt(i) ==
    /\ src[i].Type = "Label"
    /\ \E j \in 1..(i - 1) : IsLabelDecl(j, src[i].Data)

\* The places where the preprocessing scan stops early.
AbortAt(i) == src[i].Type = "Error" \/ DupAt(i)
Aborts == \E i \in 1..Len(src) : AbortAt(i)
FirstAbort ==
    CHOOSE i \in 1..Len(src) : AbortAt(i) /\ \A j \in 1..(i - 1) : ~AbortAt(j)

\* A word of the source that stands where an instruction stands.
IsInstTok(i) == src[i].Type = "Word" /\ (i = 1 \/ src[i - 1].Type # "Let")

\* The number of instructions before source position i.
SlotOf(i) == Cardinality({j \in 1..(i - 1) : IsInstTok(j)})

\* The operand bytes of the k-th record (k from 0) of the program region.
Operand(k) == SubSeq(program, 9 * k + 2, 9 * k + 9)

\* The e-th byte of a word, counted from the least significant one.
ByteAt(w, e) ==
    LET l == w[4 - (e \div 2)]
    IN  IF e % 2 = 0 THEN l % 256 ELSE l \div 256

\* The s big-endian bytes of (w modulo 2^(8*s)).
ValueBytes(w, s) == [k \in 1..s |-> ByteAt(w, s - k)]

RECURSIVE CharsBytes(_, _, _)
CharsBytes(chars, i, s) ==
    IF i > Len(chars) THEN <<>>
    ELSE ValueBytes(ToWord(chars[i]), s) \o CharsBytes(chars, i + 1, s)

\* The let at filtered position j declares name n.
LetDeclares(j, n) ==
    /\ j < Len(toks)
    /\ toks[j].Type = "Let"
    /\ toks[j + 1].Type = "Word"
    /\ toks[j + 1].Data = n

\* The current token is an instruction taking an argument, followed by @n.
AtInstRef(n) ==
    /\ pc = "loop"
    /\ tok.Type = "Word"
    /\ tok.Data \in DOMAIN Insts
    /\ Insts[tok.Data].HasArg
    /\ toks[pos + 2].Type = "Addr"
    /\ toks[pos + 2].Data = n

\* The current token opens `let n <size> @n ...` with n a fresh name.
AtOwnRef(n) ==
    /\ pc = "loop"
    /\ tok.Type = "Let"
    /\ pos + 4 <= Len(toks)
    /\ toks[pos + 2].Type = "Word"
    /\ toks[pos + 2].Data = n
    /\ SizeOf(toks[pos + 3].Type) # 0
    /\ toks[pos + 4].Type = "Addr"
    /\ toks[pos + 4].Data = n
    /\ n \notin DOMAIN vars
    /\ n \notin DOMAIN labels

Names == {"entry", "L", "v", "w", "halt", "jmp"}

\* C1 as stated: a let binds its variable to the byte length the memory
\* region has at the declaration (0 for the first variable).
C1_AddressIsByteLength ==
    [][\A n \in DOMAIN vars' \ DOMAIN vars : vars'[n] = Len(memory)]_vars_

\* C1 amended: a let binds its variable to the byte length of the memory
\* region at the declaration plus one (1 for the first variable), the binding
\* never changes, and every later address reference to the variable, as an
\* instruction operand or in the let's own data list, encodes that value.
C1_AddressIsByteLengthPlusOne ==
    [][/\ \A n \in DOMAIN vars' \ DOMAIN vars : vars'[n] = Len(memory) + 1
       /\ \A n \in DOMAIN vars : n \in DOMAIN vars' /\ vars'[n] = vars[n]
       /\ \A n \in DOMAIN vars :
            AtInstRef(n) =>
                /\ err' = NoErr
                /\ program' = program \o <<Insts[tok.Data].Op>>
                                      \o ValueBytes(ToWord(vars[n]), 8)
       /\ \A n \in Names :
            AtOwnRef(n) =>
                LET s == SizeOf(toks[pos + 3].Type)
                IN  /\ n \in DOMAIN vars'
                    /\ Len(memory') >= Len(memory) + s
                    /\ SubSeq(memory', Len(memory) + 1, Len(memory) + s)
                         = ValueBytes(ToWord(vars'[n]), s)
      ]_vars_

\* C1 witness: a second variable was declared after three bytes of data and
\* its own data list holds its address.
C1_Witness ==
    /\ pc = "returned"
    /\ err = NoErr
    /\ DOMAIN vars = {"v", "w"}
    /\ vars["v"] = 1
    /\ vars["w"] = 4
    /\ Len(memory) >= 7
    /\ SubSeq(memory, 4, 7) = <<0, 0, 0, 4>>

\* C2: when both passes succeed, programSize equals the number of records in
\* the program region (its byte length is 9 * programSize), also when a let
\* identifier is spelled like an instruction.
C2_ProgramSizeIsRecordCount ==
    Passed => Len(program) = 9 * programSize

\* C3: every address reference to a label, before or after the declaration,
\* is encoded as the index of the record that follows the declaration, and
\* entryPoint is that index for `entry`.
C3_LabelIsRecordIndex ==
    Passed =>
        \A i \in 1..Len(src) :
            src[i].Type = "Label" =>
                /\ \A k \in 1..(Len(src) - 1) :
                        (/\ IsInstTok(k)
                         /\ src[k + 1].Type = "Addr"
                         /\ src[k + 1].Data = src[i].Data)
                        => Operand(SlotOf(k)) = ValueBytes(ToWord(SlotOf(i)), 8)
                /\ src[i].Data = "entry" => entryPoint = SlotOf(i)

\* C4 as stated: a source without an `entry` label fails with the
\* missing-entry-point error and no file is created.
C4_NoEntryMeansMissingEntryError ==
    (pc # "preproc" /\ ~LabelInSource("entry")) =>
        /\ pc = "returned"
        /\ err.kind = "NoEntry"
        /\ ~file.created

\* C4 amended: a source without an `entry` label fails in the preprocessing
\* pass and no file is created or written; the error is the missing-entry-point
\* error unless the scan stopped earlier at a lexer error or a label
\* redefinition, which is then the error returned.
C4_NoEntryFailsInPreproc ==
    (pc # "preproc" /\ ~LabelInSource("entry")) =>
        /\ pc = "returned"
        /\ ~file.created
        /\ file.data = <<>>
        /\ faults = {}
        /\ err = IF ~Aborts THEN Err("NoEntry", 0)
                 ELSE IF src[FirstAbort].Type = "Error"
                 THEN Err("Lex", FirstAbort)
                 ELSE Err("LabelRedefinition", FirstAbort)

\* C4 witness: a source with labels and instructions but no `entry` was
\* scanned to its end.
C4_Witness ==
    /\ pc = "returned"
    /\ err.kind = "NoEntry"
    /\ labels # EmptyMap
    /\ pos > 0
    /\ ~file.created

\* C5: the output file is created and written only after both passes returned
\* without error; when a pass fails no I/O call is made.
C5_FileOnlyAfterBothPasses ==
    /\ (file.created \/ file.data # <<>> \/ faults # {}) => Passed
    /\ (pc = "returned" /\ err.kind \notin {"none", "IO"}) =>
            /\ ~file.created
            /\ file.data = <<>>
            /\ faults = {}

\* C5 witness: the compile pass failed after emitting a record, and there is
\* no file.
C5_Witness ==
    /\ pc = "returned"
    /\ err.kind = "ExpectsArgument"
    /\ Len(program) > 0
    /\ ~file.created

\* C6: an I/O failure at any point of creating or writing the file makes
\* CompileToBinary return the error.
C6_IOFailureIsReturned ==
    (pc = "returned" /\ faults # {}) => err.kind = "IO"

\* C7: the label and variable tables never share a name; a repeated label
\* declaration aborts with a redefinition error at the second occurrence; a let
\* whose identifier is already a variable or a label of the source aborts.
C7_NamesBoundOnce ==
    /\ DOMAIN labels \cap DOMAIN vars = {}
    /\ (pc # "preproc" /\ Aborts /\ DupAt(FirstAbort)) =>
            /\ pc = "returned"
            /\ err = Err("LabelRedefinition", FirstAbort)
    /\ (pc # "preproc" /\ \E i \in 1..Len(src) : DupAt(i)) =>
            /\ pc = "returned"
            /\ err.kind \in {"Lex", "LabelRedefinition"}
    /\ InCompilePass =>
            \A j \in 1..pos :
                (/\ toks[j].Type = "Let"
                 /\ toks[j + 1].Type = "Word"
                 /\ \/ LabelInSource(toks[j + 1].Data)
                    \/ \E i \in 1..(j - 1) : LetDeclares(i, toks[j + 1].Data))
                => /\ pc = "returned"
                   /\ pos = j
                   /\ err.kind \in {"RedefinedVariable", "LabelExists"}
                   /\ err.where = toks[j + 1].Where

\* C7 witness: a let named like a label of the source was refused.
C7_Witness ==
    /\ pc = "returned"
    /\ err.kind = "LabelExists"
    /\ tok.Data \in DOMAIN labels
    /\ vars = EmptyMap

\* C8: an instruction without argument followed by an argument-shaped token
\* fails with "expects no arguments"; an instruction with argument followed by
\* a token that is not argument-shaped (the end marker included) fails with
\* "expects an argument"; neither appends a record.
C8_ArityErrors ==
    [][(pc = "loop" /\ tok.Type = "Word" /\ tok.Data \in DOMAIN Insts) =>
            LET inst == Insts[tok.Data]
                after == toks[pos + 2]
            IN  /\ (~inst.HasArg /\ IsArg(after)) =>
                        /\ err' = Err("ExpectsNoArguments", tok.Where)
                        /\ pc' = "returned"
                        /\ program' = program
                /\ (inst.HasArg /\ ~IsArg(after)) =>
                        /\ err' = Err("ExpectsArgument", tok.Where)
                        /\ pc' = "returned"
                        /\ program' = program
      ]_vars_

\* C8 witness: an instruction with argument stood before the end marker.
C8_Witness ==
    /\ pc = "returned"
    /\ err.kind = "ExpectsArgument"
    /\ tok.Type = "EOF"

\* The bytes the data items at filtered positions i..last stand for, at
\* element size s; vs is the variable table the items are resolved in.
RECURSIVE ItemsBytes(_, _, _, _)
ItemsBytes(i, last, s, vs) ==
    IF i > last THEN <<>>
    ELSE LET t == toks[i]
             here == CASE t.Type = "Comma" -> <<>>
                       [] t.Type = "String" -> CharsBytes(t.Chars, 1, s)
                       [] OTHER ->
                            ValueBytes(argToWord(t, [vars |-> vs, tok |-> t]).val, s)
         IN  here \o ItemsBytes(i + 1, last, s, vs)

\* C9: the memory region only grows, memorySize is its byte length, and a
\* completed let of element size s appends, per data item, the s big-endian
\* bytes of the item's value modulo 2^(8*s), and the same per character of a
\* string item.
C9_MemoryLayout ==
    /\ [](memorySize = Len(memory))
    /\ [][/\ Len(memory') >= Len(memory)
          /\ SubSeq(memory', 1, Len(memory)) = memory
          /\ (pc = "loop" /\ tok.Type = "Let" /\ pc' = "loop") =>
                /\ SizeOf(toks[pos + 3].Type) \in {1, 2, 4, 8}
                /\ memory' = memory \o ItemsBytes(pos + 4, pos',
                                                  SizeOf(toks[pos + 3].Type), vars')
         ]_vars_

\* C9 witness: `let v sz8 1, 2, 3` alone filled the memory region.
C9_Witness ==
    /\ pc = "returned"
    /\ err = NoErr
    /\ memory = <<1, 2, 3>>
    /\ memorySize = 3

\* Name n is declared by a let standing before filtered position j.
DeclaredBefore(j, n) == \E i \in 1..(j - 1) : LetDeclares(i, n)

\* C10: a reference to a name declared only by a later let fails the compile
\* pass with "address name was not declared"; a reference after the let, or in
\* the let's own data list, resolves.
C10_NoForwardVariableReference ==
    /\ [](Passed =>
            \A j \in 1..Len(toks) :
                (toks[j].Type = "Addr" /\ ~LabelInSource(toks[j].Data))
                => DeclaredBefore(j, toks[j].Data))
    /\ [](err.kind = "AddressNotDeclared" =>
            /\ pc = "returned"
            /\ toks[pos + 1].Type = "Addr"
            /\ err.where = toks[pos + 1].Where
            /\ ~LabelInSource(toks[pos + 1].Data)
            /\ ~DeclaredBefore(pos + 1, toks[pos + 1].Data))
    /\ [][/\ \A n \in Names :
                (AtInstRef(n) /\ ~LabelInSource(n)) =>
                    IF DeclaredBefore(pos + 2, n)
                    THEN /\ err' = NoErr
                         /\ program' = program \o <<Insts[tok.Data].Op>>
                                               \o ValueBytes(ToWord(vars[n]), 8)
                    ELSE /\ err' = Err("AddressNotDeclared", toks[pos + 2].Where)
                         /\ pc' = "returned"
                         /\ program' = program
          /\ \A n \in Names :
                AtOwnRef(n) =>
                    /\ n \in DOMAIN vars'
                    /\ err'.where # toks[pos + 4].Where
         ]_vars_

\* C10 witness: a reference failed and the let declaring its name stands
\* later in the filtered tokens.
C10_Witness ==
    /\ pc = "returned"
    /\ err.kind = "AddressNotDeclared"
    /\ \E j \in (pos + 2)..(Len(toks) - 1) : LetDeclares(j, toks[pos + 1].Data)
====
